---- MODULE Spec2Model ----
(***************************************************************************)
(* Model of step(levels) of the Dumbo Octopus example                      *)
(* (examples/cpp/Advent-of-Code-2021-day_11/solver.cpp).                   *)
(*                                                                         *)
(* A cell is a char holding a digit; the model stores it as the integer    *)
(* char - '0', so '0' is 0 and '9' is 9.  Coordinates are 0-based as in    *)
(* the code; the row r of the grid is levels[r + 1] and its cell c is      *)
(* levels[r + 1][c + 1].                                                   *)
(***************************************************************************)
EXTENDS Integers, Sequences, FiniteSets, TLC

VARIABLES
    levels,       \* std::vector<std::string>& levels: the caller's grid
    R,            \* const int R
    C,            \* const int C
    Q,            \* std::queue<std::pair<int, int>> Q
    num_flashes,  \* int num_flashes
    pc,           \* "call" | "loop" | "done" | "error" | "crashed"
    levels0,      \* history: the grid as it was when step was entered
    flashes,      \* history: per coordinate, how often line 17 ran for it
    oob,          \* history: a cell outside a row's length was accessed
    probe,        \* test harness: the input whose results are compared
    seen,         \* test harness: the first result recorded for probe
    grid_size     \* on_start: int grid_size, set by the slider

vars == <<levels, R, C, Q, num_flashes, pc, levels0, flashes, oob, probe, seen, grid_size>>

-----------------------------------------------------------------------------
(* Bounds of the model. *)

MaxR == 3
MaxC == 3
\* Grids of more than DenseCells cells draw their cells from SparseDigits.
DenseCells == 4
\* No grid of the model has more than MaxCells cells.
MaxCells == 9
\* Repeated calls (SpecCalls) run on grids of at most CallCells cells.
CallCells == 4
\* Unchecked grids (SpecAny): at most AnyRows rows of at most AnyCols chars.
AnyRows == 2
AnyCols == 3
\* The application's sizes, scaled down: max_grid_size is 20 in main.cpp,
\* X is 6 and the grid_size on_start begins with (StartSize) is 14.
max_grid_size == 3
X == 2
StartSize == 2
\* Runs in any order (SpecOrder) are on grids of at most OrderCells cells.
OrderCells == 4

-----------------------------------------------------------------------------
(* The pieces of step. *)

\* '9', the level at which a dequeued cell flashes.
Threshold == 9

Digits == 0 .. 9
SparseDigits == {0, 8, 9}
CallDigits == {8, 9}
OrderDigits == {0, 7, 8, 9}
\* '/', '0', '9' and ':' : the digits' ends and the chars next to them.
AnyChars == {-1, 0, 9, 10}

\* levels[r][c] == '9'
AtThreshold_ge(v) == v >= Threshold
AtThreshold_pre(v) == v + 1 = Threshold
AtThreshold(v) == v = Threshold

\* levels[r][c]++ on a (signed, 8 bit) char: 127 is 79 above '0', and the
\* conversion back to char takes 128 to -128, which is 176 below '0'.
Bump(v) == IF v = 79 THEN -176 ELSE v + 1

\* if (levels[r][c] > '9') levels[r][c] = '0';
ResetCell_never(v) == v
ResetCell(v) == IF v > Threshold THEN 0 ELSE v

\* std::array{-1, 0, 1}
Offsets == <<-1, 0, 1>>

\* 0 <= r + dr and r + dr < R and 0 <= c + dc and c + dc < C
InBounds_le(r, c, nR, nC) == 0 <= r /\ r <= nR /\ 0 <= c /\ c <= nC
InBounds(r, c, nR, nC) == 0 <= r /\ r < nR /\ 0 <= c /\ c < nC

\* if (!dr and !dc) continue;
Skipped_diag(dr, dc) == (dr = 0) = (dc = 0)
Skipped_none(dr, dc) == FALSE
Skipped(dr, dc) == dr = 0 /\ dc = 0

\* What the two for loops over dr and dc emplace, in their order.
Neighbours(r, c, nR, nC) ==
    LET cand == [k \in 1 .. 9 |-> <<Offsets[((k - 1) \div 3) + 1],
                                    Offsets[((k - 1) % 3) + 1]>>]
        kept(d) == ~Skipped(d[1], d[2]) /\ InBounds(r + d[1], c + d[2], nR, nC)
        sel == SelectSeq(cand, kept)
    IN  [k \in 1 .. Len(sel) |-> <<r + sel[k][1], c + sel[k][2]>>]

\* for (r < R) for (c < C) Q.emplace(r, c);
AllCells(nR, nC) ==
    [k \in 1 .. nR * nC |-> <<(k - 1) \div nC, (k - 1) % nC>>]

Coords(nR, nC) == (0 .. nR - 1) \X (0 .. nC - 1)

\* c is a position of the string levels[r]
InRow(lv, r, c) == c + 1 \in 1 .. Len(lv[r + 1])

\* One pass of the while loop over the frame f = [levels, Q, num_flashes,
\* flashes]; hit is the outcome of the test of line 16.
\* (LoopStep_dedup: a neighbour already pending is not enqueued again.)
LoopStep_dedup(f, nR, nC, hit) ==
    LET r == Head(f.Q)[1]
        c == Head(f.Q)[2]
        rest == Tail(f.Q)
        pending(p) == \A k \in 1 .. Len(rest) : rest[k] # p
    IN  [levels |-> IF InRow(f.levels, r, c)
                    THEN [f.levels EXCEPT ![r + 1][c + 1] = Bump(@)]
                    ELSE f.levels,
         Q |-> IF hit
               THEN rest \o SelectSeq(Neighbours(r, c, nR, nC), pending)
               ELSE rest,
         num_flashes |-> IF hit THEN f.num_flashes + 1 ELSE f.num_flashes,
         flashes |-> IF hit THEN [f.flashes EXCEPT ![<<r, c>>] = @ + 1]
                     ELSE f.flashes]
LoopStep(f, nR, nC, hit) ==
    LET r == Head(f.Q)[1]
        c == Head(f.Q)[2]
    IN  [levels |-> IF InRow(f.levels, r, c)
                    THEN [f.levels EXCEPT ![r + 1][c + 1] = Bump(@)]
                    ELSE f.levels,
         Q |-> IF hit THEN Tail(f.Q) \o Neighbours(r, c, nR, nC) ELSE Tail(f.Q),
         num_flashes |-> IF hit THEN f.num_flashes + 1 ELSE f.num_flashes,
         flashes |-> IF hit THEN [f.flashes EXCEPT ![<<r, c>>] = @ + 1]
                     ELSE f.flashes]

\* The final sweep over r < R, c < C.
Swept(lv, nC) ==
    [i \in 1 .. Len(lv) |->
        [j \in 1 .. Len(lv[i]) |->
            IF j <= nC THEN ResetCell(lv[i][j]) ELSE lv[i][j]]]

\* The locals as the declarations of lines 7 to 12 leave them.
Entered_static(lv) ==
    [levels |-> lv, Q |-> AllCells(Len(lv), Len(lv[1])),
     num_flashes |-> num_flashes,
     flashes |-> [p \in Coords(Len(lv), Len(lv[1])) |-> 0]]
Entered(lv) ==
    LET nR == Len(lv)
        nC == Len(lv[1])
    IN  [levels |-> lv, Q |-> AllCells(nR, nC), num_flashes |-> 0,
         flashes |-> [p \in Coords(nR, nC) |-> 0]]

-----------------------------------------------------------------------------
(* step as a function of a valid grid: the loop run to its end. *)

RECURSIVE RunLoop(_, _, _)
RunLoop(f, nR, nC) ==
    IF f.Q = <<>> THEN f
    ELSE LET p == Head(f.Q)
         IN  RunLoop(LoopStep(f, nR, nC,
                              AtThreshold(f.levels[p[1] + 1][p[2] + 1])),
                     nR, nC)

StepFn(lv) ==
    LET nR == Len(lv)
        nC == Len(lv[1])
        f == RunLoop(Entered(lv), nR, nC)
    IN  [levels |-> Swept(f.levels, nC), num_flashes |-> f.num_flashes,
         flashes |-> f.flashes]

-----------------------------------------------------------------------------
(* The inputs. *)

Shapes ==
    {s \in (1 .. MaxR) \X (1 .. MaxC) : s[1] * s[2] <= MaxCells}

GridsOver(s, D) == [1 .. s[1] -> [1 .. s[2] -> D]]

\* Non-empty rectangular grids of digits.
ValidGrids ==
    UNION {GridsOver(s, IF s[1] * s[2] <= DenseCells THEN Digits
                        ELSE SparseDigits) : s \in Shapes}

CallGrids ==
    UNION {GridsOver(s, CallDigits) :
              s \in {t \in Shapes : t[1] * t[2] <= CallCells}}

RowsOver(D, n) == UNION {[1 .. k -> D] : k \in 0 .. n}

\* Any vector of strings: empty, ragged, with chars that are no digits.
AnyGrids ==
    UNION {[1 .. k -> RowsOver(AnyChars, AnyCols)] : k \in 0 .. AnyRows}

Rectangular(lv) ==
    /\ Len(lv) >= 1
    /\ \A i \in 1 .. Len(lv) : Len(lv[i]) = Len(lv[1])
    /\ Len(lv[1]) >= 1

AllDigits(lv) ==
    \A i \in 1 .. Len(lv) : \A j \in 1 .. Len(lv[i]) : lv[i][j] \in Digits

-----------------------------------------------------------------------------
(* The state machine. *)

InitWith(G, P) ==
    /\ levels \in G
    /\ levels0 = levels
    /\ R = 0
    /\ C = 0
    /\ Q = <<>>
    /\ num_flashes = 0
    /\ pc = "call"
    /\ flashes = <<>>
    /\ oob = FALSE
    /\ probe \in P
    /\ seen = <<>>
    /\ grid_size = 0

Init == InitWith(ValidGrids, {<<>>})

InitAny == InitWith(AnyGrids, {<<>>})

\* A test of repeated calls: one of the inputs is the probe.
InitCalls == InitWith(CallGrids, CallGrids)

\* Lines 7 to 12: levels.at(0) throws std::out_of_range on an empty vector.
StepEnter ==
    /\ pc = "call"
    /\ levels0' = levels
    /\ IF Len(levels) = 0
       THEN /\ pc' = "error"
            /\ UNCHANGED <<levels, R, C, Q, num_flashes, flashes, oob>>
       ELSE LET f == Entered(levels)
            IN  /\ R' = Len(levels)
                /\ C' = Len(levels[1])
                /\ Q' = f.Q
                /\ num_flashes' = f.num_flashes
                /\ flashes' = f.flashes
                /\ pc' = "loop"
                /\ UNCHANGED <<levels, oob>>
    /\ UNCHANGED <<probe, seen, grid_size>>

\* What the read of levels[r][c] at line 16 can come to.  Inside the row it
\* is the cell.  Outside it the behaviour is undefined: the process may be
\* aborted, or the byte found there is not '9', or it is '9' (at most once,
\* as line 26 increments that byte too).
Outcomes(r, c) ==
    IF InRow(levels, r, c)
    THEN {IF AtThreshold(levels[r + 1][c + 1]) THEN "hit" ELSE "miss"}
    ELSE {"crash", "miss"} \cup (IF flashes[<<r, c>>] = 0 THEN {"hit"} ELSE {})

\* Lines 13 to 27: one pass of the while loop.
Dequeue ==
    /\ pc = "loop"
    /\ Q # <<>>
    /\ LET r == Head(Q)[1]
           c == Head(Q)[2]
       IN  \E out \in Outcomes(r, c) :
               /\ oob' = (oob \/ ~InRow(levels, r, c))
               /\ IF out = "crash"
                  THEN /\ pc' = "crashed"
                       /\ UNCHANGED <<levels, Q, num_flashes, flashes>>
                  ELSE LET f == LoopStep([levels |-> levels, Q |-> Q,
                                          num_flashes |-> num_flashes,
                                          flashes |-> flashes],
                                         R, C, out = "hit")
                       IN  /\ levels' = f.levels
                           /\ Q' = f.Q
                           /\ num_flashes' = f.num_flashes
                           /\ flashes' = f.flashes
                           /\ pc' = pc
    /\ UNCHANGED <<R, C, levels0, probe, seen, grid_size>>

\* Lines 28 to 30: the queue is empty; sweep and return num_flashes.
Sweep ==
    /\ pc = "loop"
    /\ Q = <<>>
    /\ levels' = Swept(levels, C)
    /\ pc' = "done"
    /\ UNCHANGED <<R, C, Q, num_flashes, levels0, flashes, oob, probe, seen, grid_size>>

Next == StepEnter \/ Dequeue \/ Sweep

Spec == Init /\ [][Next]_vars

SpecAny == InitAny /\ [][Next]_vars

\* The larger grids of the runs checked to their end are grids of 8s and 9s,
\* those with the longest cascades.
LiveGrids ==
    UNION {GridsOver(s, IF s[1] * s[2] <= DenseCells THEN Digits
                        ELSE CallDigits) : s \in Shapes}

InitLive == InitWith(LiveGrids, {<<>>})

\* step is one synchronous call: once entered it runs on to its return.
SpecLive == InitLive /\ [][Next]_vars /\ WF_vars(Next)

\* The same loop with the pending coordinates taken in any order: the entry k
\* of the queue is processed as line 14 to 26 process the front.
Moved(q, k) == <<q[k]>> \o SubSeq(q, 1, k - 1) \o SubSeq(q, k + 1, Len(q))

DequeueAny ==
    /\ pc = "loop"
    /\ Q # <<>>
    /\ \E k \in 1 .. Len(Q) :
          LET r == Q[k][1]
              c == Q[k][2]
              f == LoopStep([levels |-> levels, Q |-> Moved(Q, k),
                             num_flashes |-> num_flashes, flashes |-> flashes],
                            R, C, AtThreshold(levels[r + 1][c + 1]))
          IN  /\ levels' = f.levels
              /\ Q' = f.Q
              /\ num_flashes' = f.num_flashes
              /\ flashes' = f.flashes
    /\ UNCHANGED <<R, C, pc, levels0, oob, probe, seen, grid_size>>

\* The grids of the runs in any order.
OrderGrids ==
    UNION {GridsOver(s, OrderDigits) :
              s \in {t \in Shapes : t[1] * t[2] <= OrderCells}}

InitOrder == InitWith(OrderGrids, {<<>>})

NextOrder == StepEnter \/ DequeueAny \/ Sweep

SpecOrder == InitOrder /\ [][NextOrder]_vars

-----------------------------------------------------------------------------
(* The application of main.cpp around step. *)

Min(a, b) == IF a <= b THEN a ELSE b

\* row < std::min(max_grid_size, grid_size) + 1, from row = 1
RowCount_all(gs) == gs
RowCount(gs) == Min(max_grid_size, gs)

\* The grids add_random_grid(text_gadget, gs) can leave in levels: RowCount
\* rows of gs chars std::rand() % 10 + '0'.  Of these grids the model takes
\* those that repeat three drawn digits along the diagonals; the calls of
\* step that follow bring the other digits in.
RandomGrids(gs) ==
    {[i \in 1 .. RowCount(gs) |-> [j \in 1 .. gs |-> t[((i + 2 * j) % 3) + 1]]] :
        t \in SparseDigits \X SparseDigits \X SparseDigits}

\* What the slider can report: "min"_a=1., "max"_a=1.*X*max_grid_size.
SliderValues == 1 .. X * max_grid_size

\* on_start up to the animation loop: add_random_grid(text_gadget, 14), and
\* the loop's first add_next_grid_text is about to call step.
InitApp ==
    /\ grid_size = StartSize
    /\ levels \in RandomGrids(StartSize)
    /\ levels0 = levels
    /\ R = 0
    /\ C = 0
    /\ Q = <<>>
    /\ num_flashes = 0
    /\ pc = "call"
    /\ flashes = <<>>
    /\ oob = FALSE
    /\ probe = <<>>
    /\ seen = <<>>

\* The animation loop: after the sleep, add_next_grid_text calls step(levels).
add_next_grid_text ==
    /\ pc \in {"done", "idle"}
    /\ pc' = "call"
    /\ UNCHANGED <<levels, R, C, Q, num_flashes, levels0, flashes, oob, probe,
                   seen, grid_size>>

\* The slider's callback, run by the event loop while on_start sleeps:
\* grid_size = round(slider_value); add_random_grid(text_gadget, grid_size).
\* No call of step is in progress, so none of its locals exists.
on_slider_change ==
    /\ pc \in {"done", "idle"}
    /\ \E v \in SliderValues :
          /\ grid_size' = v
          /\ levels' \in RandomGrids(v)
    /\ levels0' = levels'
    /\ R' = 0
    /\ C' = 0
    /\ Q' = <<>>
    /\ num_flashes' = 0
    /\ flashes' = <<>>
    /\ pc' = "idle"
    /\ UNCHANGED <<oob, probe, seen>>

NextApp ==
    StepEnter \/ Dequeue \/ Sweep \/ add_next_grid_text \/ on_slider_change

SpecApp == InitApp /\ [][NextApp]_vars

-----------------------------------------------------------------------------
\* The harness keeps the first result returned for the probe.
Recorded ==
    IF levels0 = probe /\ seen = <<>> THEN <<num_flashes, levels>> ELSE seen

\* The caller calls step again on the grid the last call left
\* (add_next_grid_text: step(levels) in the animation loop).
Recall ==
    /\ pc = "done"
    /\ pc' = "call"
    /\ seen' = Recorded
    /\ UNCHANGED <<levels, R, C, Q, num_flashes, levels0, flashes, oob, probe, grid_size>>

\* The caller fills the grid anew and calls step on it (add_random_grid).
Reload ==
    /\ pc = "done"
    /\ \E g \in CallGrids : levels' = g
    /\ pc' = "call"
    /\ seen' = Recorded
    /\ UNCHANGED <<R, C, Q, num_flashes, levels0, flashes, oob, probe, grid_size>>

NextCalls == StepEnter \/ Dequeue \/ Sweep \/ Recall \/ Reload

SpecCalls == InitCalls /\ [][NextCalls]_vars

-----------------------------------------------------------------------------
(* What the claims speak of, stated on the grid alone. *)

\* The positions <<i, j>> (1-based) of a rectangular grid g.
CellsOf(g) == {p \in (1 .. Len(g)) \X (1 .. Len(g[1])) : TRUE}

Dist(a, b) == IF a >= b THEN a - b ELSE b - a

\* p and q are distinct and touch, sideways or diagonally.
Adjacent(p, q) == p # q /\ Dist(p[1], q[1]) <= 1 /\ Dist(p[2], q[2]) <= 1

\* How often the cell at position p (1-based) has flashed in this call.
FlashesAt(p) == flashes[<<p[1] - 1, p[2] - 1>>]

\* The flash events of the neighbours of p in this call.
RECURSIVE SumOver(_, _)
SumOver(S, p) ==
    IF S = {} THEN 0
    ELSE LET q == CHOOSE x \in S : TRUE
         IN  (IF Adjacent(p, q) THEN FlashesAt(q) ELSE 0) + SumOver(S \ {q}, p)

NeighbourFlashes(p) == SumOver(CellsOf(levels0), p)

-----------------------------------------------------------------------------
\* C1: for every valid grid, when step has returned every cell is in 0 .. 9.
C1_CellsBackInRange ==
    pc = "done" =>
        \A p \in CellsOf(levels) : levels[p[1]][p[2]] \in 0 .. 9

\* A returned call in which a cell went above 9 and was reset.
C1_Witness ==
    /\ pc = "done"
    /\ \E p \in CellsOf(levels) :
          FlashesAt(p) = 1 /\ levels[p[1]][p[2]] = 0 /\ levels0[p[1]][p[2]] = 8

\* C2 as stated: there is a valid grid to call step with on which some cell
\* flashes at least twice in that call.
C2_SomeCellFlashesTwice ==
    pc = "call" =>
        \E g \in ValidGrids :
            LET s == StepFn(g)
            IN  \E p \in DOMAIN s.flashes : s.flashes[p] >= 2

\* C2 amended: within one call no cell flashes more than once, so the count
\* is the number of distinct cells that flashed.
C2_FlashesAtMostOnce ==
    /\ \A p \in DOMAIN flashes : flashes[p] <= 1
    /\ pc \in {"loop", "done"} =>
          num_flashes = Cardinality({p \in DOMAIN flashes : flashes[p] = 1})

\* A cell that has flashed was dequeued again, at 10, and did not flash.
C2_Witness ==
    /\ pc = "loop"
    /\ \E p \in CellsOf(levels) : FlashesAt(p) = 1 /\ levels[p[1]][p[2]] >= 11

\* g holds exactly one 9, at p, and every neighbour of p is 0.
SingleNine(g, p) ==
    /\ g[p[1]][p[2]] = 9
    /\ \A q \in CellsOf(g) :
          /\ q # p => g[q[1]][q[2]] # 9
          /\ Adjacent(p, q) => g[q[1]][q[2]] = 0

\* C3 as stated: the neighbours of the single 9 end 1 higher than they were.
C3_NeighboursOneHigher ==
    pc = "done" =>
        \A p \in CellsOf(levels0) :
            SingleNine(levels0, p) =>
                /\ num_flashes = 1
                /\ levels[p[1]][p[2]] = 0
                /\ \A q \in CellsOf(levels0) :
                      Adjacent(p, q) => levels[q[1]][q[2]] = levels0[q[1]][q[2]] + 1

\* C3 amended: the neighbours of the single 9 end 2 higher than they were,
\* 1 for their own dequeue and 1 for the flash; the count is 1 and the 9 is 0.
C3_NeighboursTwoHigher ==
    pc = "done" =>
        \A p \in CellsOf(levels0) :
            SingleNine(levels0, p) =>
                /\ num_flashes = 1
                /\ levels[p[1]][p[2]] = 0
                /\ \A q \in CellsOf(levels0) :
                      Adjacent(p, q) => levels[q[1]][q[2]] = levels0[q[1]][q[2]] + 2

\* The 9 in the middle of a 3 x 3 grid of zeros, after the step.
C3_Witness ==
    /\ pc = "done"
    /\ Len(levels0) = 3 /\ Len(levels0[1]) = 3
    /\ SingleNine(levels0, <<2, 2>>)

\* C4: on a grid of 9s step returns R*C and leaves every cell 0.
C4_AllNine ==
    (pc = "done" /\ \A p \in CellsOf(levels0) : levels0[p[1]][p[2]] = 9) =>
        /\ num_flashes = Len(levels0) * Len(levels0[1])
        /\ \A p \in CellsOf(levels) : levels[p[1]][p[2]] = 0

\* The 3 x 3 grid of 9s, after the step.
C4_Witness ==
    /\ pc = "done"
    /\ levels0 = [i \in 1 .. 3 |-> [j \in 1 .. 3 |-> 9]]
    /\ num_flashes = 9

\* C5: on a grid without a 9 step returns 0 and every cell ends 1 higher.
C5_NoNine ==
    (pc = "done" /\ \A p \in CellsOf(levels0) : levels0[p[1]][p[2]] # 9) =>
        /\ num_flashes = 0
        /\ \A p \in CellsOf(levels) :
              levels[p[1]][p[2]] = levels0[p[1]][p[2]] + 1

\* A grid of 8s and 0s with both, after the step: the 8s are 9 and stay.
C5_Witness ==
    /\ pc = "done"
    /\ \A p \in CellsOf(levels0) : levels0[p[1]][p[2]] \in {0, 8}
    /\ \E p \in CellsOf(levels0) : levels[p[1]][p[2]] = 9
    /\ \E p \in CellsOf(levels0) : levels[p[1]][p[2]] = 1
    /\ Len(levels0) * Len(levels0[1]) = 9

\* The grid is empty or its rows have unequal lengths.
Invalid(g) == Len(g) = 0 \/ \E i \in 1 .. Len(g) : Len(g[i]) # Len(g[1])

\* C6 as stated: on an empty or ragged grid step ends with an error before
\* its loop and never touches a position outside a row.
C6_FailsFast ==
    Invalid(levels0) => pc \in {"call", "error"} /\ ~oob

\* C7 as stated: step never returns with a cell that was outside 0 .. 9 at
\* entry rewritten to a value inside 0 .. 9.
C7_NeverClamped ==
    (pc = "done" /\ Rectangular(levels0)) =>
        \A p \in CellsOf(levels0) :
            levels0[p[1]][p[2]] \notin 0 .. 9 => levels[p[1]][p[2]] \notin 0 .. 9

\* C8: a call of step on the probe returns what the first call on the probe
\* returned, whatever was called in between.
C8_Deterministic ==
    (pc = "done" /\ levels0 = probe /\ seen # <<>>) =>
        seen = <<num_flashes, levels>>

\* A later call on the probe has returned, with flashes; the call before it
\* left a count other than 0 behind.
C8_Witness ==
    /\ pc = "done"
    /\ levels0 = probe
    /\ seen # <<>>
    /\ num_flashes >= 2

\* C9: when the queue is empty a cell holds its initial value + 1 + the flash
\* events of its neighbours; after the sweep it holds that value if it is at
\* most 9 and 0 otherwise.
C9_Accounting ==
    /\ (pc = "loop" /\ Q = <<>>) =>
          \A p \in CellsOf(levels0) :
              levels[p[1]][p[2]] = levels0[p[1]][p[2]] + 1 + NeighbourFlashes(p)
    /\ pc = "done" =>
          \A p \in CellsOf(levels0) :
              LET v == levels0[p[1]][p[2]] + 1 + NeighbourFlashes(p)
              IN  levels[p[1]][p[2]] = IF v <= 9 THEN v ELSE 0

\* After the step: a cell with two flashing neighbours that stayed at most 9,
\* and a cell below 9 at entry that the cascade took above 9.
C9_Witness ==
    /\ pc = "done"
    /\ \E p \in CellsOf(levels0) :
          NeighbourFlashes(p) >= 2 /\ levels[p[1]][p[2]] >= 3
    /\ \E p \in CellsOf(levels0) :
          levels0[p[1]][p[2]] < 9 /\ levels[p[1]][p[2]] = 0

\* Every coordinate of the queue is a cell of the grid.
QueueInGrid ==
    \A k \in 1 .. Len(Q) :
        /\ 0 <= Q[k][1] /\ Q[k][1] < Len(levels0)
        /\ 0 <= Q[k][2] /\ Q[k][2] < Len(levels0[1])

\* The number of neighbours a cell at position p of the grid has: 3 in a
\* corner and 5 on an edge of a grid of at least 2 x 2, 8 inside.
NeighbourCount(p) ==
    LET nR == Len(levels0)
        nC == Len(levels0[1])
        onRowEdge == p[1] \in {1, nR}
        onColEdge == p[2] \in {1, nC}
    IN  IF nR >= 2 /\ nC >= 2
        THEN IF onRowEdge /\ onColEdge THEN 3
             ELSE IF onRowEdge \/ onColEdge THEN 5 ELSE 8
        ELSE Cardinality({q \in CellsOf(levels0) : Adjacent(p, q)})

\* A dequeue of a cell at 9 appends exactly the neighbours of that cell.
EnqueuesNeighbours ==
    (pc = "loop" /\ Q # <<>> /\ levels[Head(Q)[1] + 1][Head(Q)[2] + 1] = 9) =>
        LET p == <<Head(Q)[1] + 1, Head(Q)[2] + 1>>
            added == {Q'[k] : k \in Len(Q) .. Len(Q')}
        IN  /\ Len(Q') = Len(Q) - 1 + NeighbourCount(p)
            /\ added = {<<q[1] - 1, q[2] - 1>> : q \in
                           {x \in CellsOf(levels0) : Adjacent(p, x)}}

\* C10: the queue only ever holds coordinates of the grid, and a flashing
\* cell enqueues its in-bounds neighbours only: 3 in a corner, 5 on an edge.
C10_QueueInBounds == [](pc = "loop" => QueueInGrid) /\ [][EnqueuesNeighbours]_vars

\* A corner of a grid of at least 2 x 2 has flashed and its 3 neighbours are
\* at the back of the queue.
C10_Witness ==
    /\ pc = "loop"
    /\ Len(levels0) >= 2 /\ Len(levels0[1]) >= 2
    /\ FlashesAt(<<1, 1>>) = 1
    /\ Len(Q) = Len(levels0) * Len(levels0[1]) - 1 + 3
    /\ Q[Len(Q)] = <<1, 1>>

\* The queue entries still to come: those pending, and up to 8 for every
\* cell that has not flashed yet.
Variant == Len(Q) + 8 * Cardinality({p \in DOMAIN flashes : flashes[p] = 0})

\* Every pass of the loop lowers the variant.
VariantFalls == (pc = "loop" /\ Q # <<>>) => Variant' < Variant

\* C11: on every valid grid the loop of step ends and step returns: the
\* queue grows by at most 8 at a flash, and a cell flashes only once.
C11_Terminates == <>(pc = "done" /\ Q = <<>>) /\ [][VariantFalls]_vars

\* step has returned after a cascade: a cell below 9 at entry has flashed.
C11_Witness ==
    /\ pc = "done"
    /\ Q = <<>>
    /\ \E p \in CellsOf(levels0) : FlashesAt(p) = 1 /\ levels0[p[1]][p[2]] < 9

\* C12: the count returned is the number of cells that are 0 after the step;
\* a cell is 0 after the step exactly if it flashed, and a cell that did not
\* flash ends in 1 .. 9.
C12_CountIsZeros ==
    pc = "done" =>
        /\ num_flashes =
              Cardinality({p \in CellsOf(levels) : levels[p[1]][p[2]] = 0})
        /\ \A p \in CellsOf(levels) :
              /\ levels[p[1]][p[2]] = 0 <=> FlashesAt(p) >= 1
              /\ FlashesAt(p) = 0 => levels[p[1]][p[2]] \in 1 .. 9

\* After the step: a cell that flashed in the cascade beside one that went
\* up to 9 without flashing.
C12_Witness ==
    /\ pc = "done"
    /\ \E p \in CellsOf(levels) :
          FlashesAt(p) = 1 /\ levels0[p[1]][p[2]] < 9 /\ levels[p[1]][p[2]] = 0
    /\ \E p \in CellsOf(levels) : FlashesAt(p) = 0 /\ levels[p[1]][p[2]] = 9

\* C13: during step no cell exceeds its initial value + 9, hence 18, far
\* inside the char's range: no increment wraps.
C13_NoOverflow ==
    pc \in {"loop", "done"} =>
        \A p \in CellsOf(levels) :
            /\ levels[p[1]][p[2]] <= levels0[p[1]][p[2]] + 9
            /\ levels[p[1]][p[2]] <= 18
            /\ levels[p[1]][p[2]] >= 0

\* The middle cell of the 3 x 3 grid of 9s at 18, its 8 neighbours having
\* flashed.
C13_Witness ==
    /\ pc = "loop"
    /\ Len(levels0) = 3 /\ Len(levels0[1]) = 3
    /\ levels0[2][2] = 9
    /\ levels[2][2] = 18

\* C14: whatever the order in which the pending coordinates are taken, step
\* ends with the grid and the count of the FIFO order.
C14_OrderIndependent ==
    pc = "done" =>
        LET fifo == StepFn(levels0)
        IN  levels = fifo.levels /\ num_flashes = fifo.num_flashes

\* A state no FIFO run passes: a cell has been processed twice, once for an
\* entry added by a flash, while a cell of the initial enqueue is pending.
C14_Witness ==
    /\ pc = "loop"
    /\ \E p \in CellsOf(levels0) : levels[p[1]][p[2]] = levels0[p[1]][p[2]]
    /\ \E p \in CellsOf(levels0) : levels[p[1]][p[2]] >= levels0[p[1]][p[2]] + 2

\* The shared grid has min(max_grid_size, grid_size) rows of grid_size
\* digits each, and at least one row.
AppGridValid ==
    /\ Len(levels) >= 1
    /\ Len(levels) = (IF grid_size < max_grid_size THEN grid_size
                      ELSE max_grid_size)
    /\ \A i \in 1 .. Len(levels) :
          /\ Len(levels[i]) = grid_size
          /\ \A j \in 1 .. Len(levels[i]) : levels[i][j] \in 0 .. 9

\* C15: in the application the shared grid is valid, with the shape the
\* slider's grid_size gives, at the start and at the end of every call of
\* step, and step changes neither the number of rows nor a row's length.
C15_AppGridValid ==
    /\ pc \in {"call", "done"} => AppGridValid
    /\ pc \in {"loop", "done"} =>
          /\ Len(levels) = Len(levels0)
          /\ \A i \in 1 .. Len(levels) : Len(levels[i]) = Len(levels0[i])

\* A call of step has returned, with flashes, on a grid the slider made
\* with a grid_size above max_grid_size.
C15_Witness ==
    /\ pc = "done"
    /\ grid_size > max_grid_size
    /\ num_flashes >= 1
    /\ Len(levels) = max_grid_size

-----------------------------------------------------------------------------
(* Agreement of the function with the state machine. *)

StepFnAgrees ==
    pc = "done" =>
        LET s == StepFn(levels0)
        IN  /\ s.levels = levels
            /\ s.num_flashes = num_flashes
            /\ s.flashes = flashes

====
